---- MODULE Spec2Model ----
(***************************************************************************)
(* Process Execution Layer of klask (src/src/child_app.rs).                *)
(*                                                                         *)
(* Strategy A is the native ChildApp: a spawned child process, one reader  *)
(* thread per output pipe, one mpsc channel per reader, and the host's     *)
(* read / is_running / kill / drop.  Specification Spec.                    *)
(*                                                                         *)
(* Strategy B is the wasm32 ChildApp: a boxed future polled by the host    *)
(* and a logger queue drained by read.  Specification SpecB.               *)
(***************************************************************************)
EXTENDS Integers, Sequences, FiniteSets, TLC

\* ---------------------------------------------------------------- bounds
\* lines the child writes to each output stream
MaxLines == 2
\* lines an OS pipe buffers before the child's write blocks
PipeCap == 1
\* read_line calls that return Err (for instance a line of invalid UTF-8)
MaxErr == 1
\* chunks of the stdin payload, and chunks the stdin pipe buffers
MaxPayload == 2
StdinCap == 1
\* resumption steps of the future given to ChildApp::new
MaxSteps == 3
\* messages the logger queue holds before the model stops the unit logging
MaxQueue == 3
\* entries entered into one multi-value node
MaxEntries == 2
\* largest occurrence count set on a counted flag
MaxOcc == 3

\* ------------------------------------------------------- strategy A state
VARIABLES
    pc,          \* position of ChildApp::run: "start" .. "returned" / "failed" / "panicked"
    err,         \* the ExecutionError run returned, "none" when none
    spawnCalls,  \* number of Command::spawn calls made by run
    child,       \* the OS process: "none", "alive", "exited", "killed"
    handle,      \* Child.stdout / Child.stderr: [Streams -> "none" | "some" | "taken"]
    stdinW,      \* write end of the child's stdin: "none", "in_child", "taken", "closed"
    toSend,      \* chunks of the stdin payload write_all still has to write
    stdinPipe,   \* chunks buffered in the stdin pipe
    written,     \* lines the child has written so far, per stream
    pipe,        \* lines buffered in each output pipe
    thr,         \* reader thread per stream: "none", "running", "done"
    errs,        \* read_line calls that returned Err so far
    chan,        \* mpsc queue per stream: Seq of Some(payload) / None
    rx,          \* the Receiver per stream: "none", "live", "retired" (the Option is None)
    session,     \* the ChildApp value: "none", "live", "dropped"
    fwd,         \* history: payloads each reader thread sent into a live channel
    delivered,   \* history: per stream, what read calls returned so far
    lost,        \* history: payloads discarded with a Receiver, per stream
    lastRead,    \* the String returned by the latest read call
    killCalled,  \* history: kill has run (explicitly or through Drop)
    op           \* kind of the latest step: "run", "child", "reader", "read", "kill", "drop"

varsA == <<pc, err, spawnCalls, child, handle, stdinW, toSend, stdinPipe, written,
           pipe, thr, errs, chan, rx, session, fwd, delivered, lost, lastRead,
           killCalled, op>>

Streams == {"stdout", "stderr"}

\* Option<String> sent through the channel: Some(payload) or None (end sentinel).
\* A payload is a string, modelled as a sequence of line tokens: one line is
\* <<[stream, n]>>, the empty string is <<>>.
Some(s) == [tag |-> "Some", val |-> s]
None == [tag |-> "None"]
Line(s, n) == <<[stream |-> s, n |-> n]>>

RECURSIVE Flatten(_)
Flatten(ss) == IF ss = <<>> THEN <<>> ELSE Head(ss) \o Flatten(Tail(ss))

\* payloads of the Some items of a queue, in order
RECURSIVE Payloads(_)
Payloads(q) ==
    IF q = <<>> THEN <<>>
    ELSE IF Head(q).tag = "Some" THEN <<Head(q).val>> \o Payloads(Tail(q))
    ELSE Payloads(Tail(q))

InitA ==
    /\ pc = "start"
    /\ err = "none"
    /\ spawnCalls = 0
    /\ child = "none"
    /\ handle = [s \in Streams |-> "none"]
    /\ stdinW = "none"
    /\ toSend = 0
    /\ stdinPipe = 0
    /\ written = [s \in Streams |-> 0]
    /\ pipe = [s \in Streams |-> <<>>]
    /\ thr = [s \in Streams |-> "none"]
    /\ errs = 0
    /\ chan = [s \in Streams |-> <<>>]
    /\ rx = [s \in Streams |-> "none"]
    /\ session = "none"
    /\ fwd = [s \in Streams |-> <<>>]
    /\ delivered = [s \in Streams |-> <<>>]
    /\ lost = [s \in Streams |-> <<>>]
    /\ lastRead = <<>>
    /\ killCalled = FALSE
    /\ op = "none"

\* ------------------------------------------------------- strategy B state
VARIABLES
    fut,         \* ChildApp.fut: "unborn" before new, "some", "none"
    unitTotal,   \* resumption steps the stored future needs to complete
    unitDone,    \* resumption steps the future has executed
    queue,       \* logger.queue: Seq of messages
    lastPoll,    \* what the latest poll call returned: "none", "Pending", "Ready", "Panicked"
    lastReadB,   \* the String returned by the latest read call
    opB          \* the latest host operation

varsB == <<fut, unitTotal, unitDone, queue, lastPoll, lastReadB, opB>>

\* ------------------------------------------- Argument State Engine state
VARIABLES
    schema,      \* the clap Command the form was built from: its name, "none" before AppState::new
    args,        \* AppState.args: Seq of node payloads (value / values / bool / count)
    phase,       \* position in test_app: "new", "setup", "reconstructed", "parsed"
    cmd_args,    \* what get_cmd_args returned: Seq of tokens, <<>> before the call
    matches      \* what re-parsing cmd_args gave: [ok, fields], NoMatches before

varsC == <<schema, args, phase, cmd_args, matches>>

vars == <<pc, err, spawnCalls, child, handle, stdinW, toSend, stdinPipe, written,
          pipe, thr, errs, chan, rx, session, fwd, delivered, lost, lastRead,
          killCalled, op, fut, unitTotal, unitDone, queue, lastPoll, lastReadB, opB,
          schema, args, phase, cmd_args, matches>>

InitB ==
    /\ fut = "unborn"
    /\ unitTotal = 0
    /\ unitDone = 0
    /\ queue = <<>>
    /\ lastPoll = "none"
    /\ lastReadB = <<>>
    /\ opB = "none"

NoMatches == [ok |-> FALSE, fields |-> <<>>]

InitC ==
    /\ schema = "none"
    /\ args = <<>>
    /\ phase = "new"
    /\ cmd_args = <<>>
    /\ matches = NoMatches

\* ------------------------------------------------ strategy A: ChildApp::run

\* A Receiver that goes out of scope: the queue it owned is discarded.
DroppedRx(S) == [s \in Streams |-> IF s \in S /\ rx[s] = "live" THEN "retired" ELSE rx[s]]
DroppedChan(S) == [s \in Streams |-> IF s \in S /\ rx[s] = "live" THEN <<>> ELSE chan[s]]
DroppedLost(S) ==
    [s \in Streams |-> IF s \in S /\ rx[s] = "live" THEN lost[s] \o Payloads(chan[s]) ELSE lost[s]]

\* run looping back to its start instead of returning the error
RunFail_retry(e) ==
    /\ pc' = "start"
    /\ err' = e
    /\ rx' = DroppedRx(Streams)
    /\ chan' = DroppedChan(Streams)
    /\ lost' = DroppedLost(Streams)
    /\ handle' = [s \in Streams |-> IF handle[s] = "some" THEN "closed" ELSE handle[s]]
    /\ stdinW' = IF stdinW \in {"in_child", "taken"} THEN "closed" ELSE stdinW
    /\ toSend' = 0
    /\ UNCHANGED <<child, session, killCalled>>

\* `?` on an Err: run returns the error and its locals go out of scope: the
\* receivers created so far and the std::process::Child, whose drop closes the
\* handles it still holds and does not kill the process.
RunFail(e) ==
    /\ pc' = "failed"
    /\ err' = e
    /\ rx' = DroppedRx(Streams)
    /\ chan' = DroppedChan(Streams)
    /\ lost' = DroppedLost(Streams)
    /\ handle' = [s \in Streams |-> IF handle[s] = "some" THEN "closed" ELSE handle[s]]
    /\ stdinW' = IF stdinW \in {"in_child", "taken"} THEN "closed" ELSE stdinW
    /\ toSend' = 0
    /\ UNCHANGED <<child, session, killCalled>>

\* l.117: Command::new(std::env::current_exe()?)
RunCurrentExe ==
    /\ pc = "start"
    /\ \/ /\ pc' = "configured"
          /\ UNCHANGED <<err, rx, chan, lost, handle, stdinW, toSend, child, session, killCalled>>
       \/ RunFail("IoError")
    /\ UNCHANGED <<spawnCalls, stdinPipe, written, pipe, thr, errs, fwd, delivered,
                   lastRead>>
    /\ op' = "run"
    /\ UNCHANGED <<varsB, varsC>>

WorkingDirs == {"None", "Empty", "Good", "Bad"}

\* l.119-134: env, args, piped stdio, working directory
RunWorkingDir ==
    /\ pc = "configured"
    /\ \E working_dir \in WorkingDirs :
          IF working_dir = "Bad"
          THEN RunFail("IoError")
          ELSE /\ pc' = "dir_set"
               /\ UNCHANGED <<err, rx, chan, lost, handle, stdinW, toSend, child, session,
                              killCalled>>
    /\ UNCHANGED <<spawnCalls, stdinPipe, written, pipe, thr, errs, fwd, delivered,
                   lastRead>>
    /\ op' = "run"
    /\ UNCHANGED <<varsB, varsC>>

\* l.136: child.spawn()?  With Stdio::piped() on all three, a spawned Child
\* holds all three handles.
RunSpawn ==
    /\ pc = "dir_set"
    /\ spawnCalls' = spawnCalls + 1
    /\ \/ /\ pc' = "spawned"
          /\ child' = "alive"
          /\ handle' = [s \in Streams |-> "some"]
          /\ stdinW' = "in_child"
          /\ UNCHANGED <<err, rx, chan, lost, toSend, session, killCalled>>
       \/ RunFail("IoError")
    /\ UNCHANGED <<stdinPipe, written, pipe, thr, errs, fwd, delivered, lastRead>>
    /\ op' = "run"
    /\ UNCHANGED <<varsB, varsC>>

\* run keeping the pipe without starting the reader thread
RunTakeReader_no_thread(s, at, next) ==
    /\ pc = at
    /\ IF handle[s] = "some"
       THEN /\ pc' = next
            /\ rx' = [rx EXCEPT ![s] = "live"]
            /\ UNCHANGED <<handle, thr, err, chan, lost, stdinW, toSend, child, session,
                           killCalled>>
       ELSE /\ RunFail("NoStdoutOrStderr")
            /\ UNCHANGED thr
    /\ UNCHANGED <<spawnCalls, stdinPipe, written, pipe, errs, fwd, delivered, lastRead>>
    /\ op' = "run"
    /\ UNCHANGED <<varsB, varsC>>

\* l.138-152: child.<s>.take().ok_or(NoStdoutOrStderr)? and spawn_thread_reader
\* (l.195-197, 211): the channel is created, the thread started, rx returned.
RunTakeReader(s, at, next) ==
    /\ pc = at
    /\ IF handle[s] = "some"
       THEN /\ pc' = next
            /\ handle' = [handle EXCEPT ![s] = "taken"]
            /\ thr' = [thr EXCEPT ![s] = "running"]
            /\ rx' = [rx EXCEPT ![s] = "live"]
            /\ UNCHANGED <<err, chan, lost, stdinW, toSend, child, session, killCalled>>
       ELSE /\ RunFail("NoStdoutOrStderr")
            /\ UNCHANGED thr
    /\ UNCHANGED <<spawnCalls, stdinPipe, written, pipe, errs, fwd, delivered, lastRead>>
    /\ op' = "run"
    /\ UNCHANGED <<varsB, varsC>>

RunStdoutReader == RunTakeReader("stdout", "spawned", "stdout_reader")

RunStderrReader == RunTakeReader("stderr", "stdout_reader", "stderr_reader")

\* l.167-171: Ok(Self { child, stdout: Some(stdout), stderr: Some(stderr) })
RunReturnOk ==
    /\ pc' = "returned"
    /\ session' = "live"

StdinInputs == {"None", "Text", "File", "MissingFile"}

\* l.154-165: the stdin payload.  child.stdin.take().unwrap() moves the write
\* end into a local that is dropped, and so closed, when the block is left.
RunStdin ==
    /\ pc = "stderr_reader"
    /\ \E stdin \in StdinInputs :
          CASE stdin = "None" ->
                  /\ RunReturnOk
                  /\ UNCHANGED <<err, rx, chan, lost, handle, stdinW, toSend, child, killCalled>>
            [] stdinW # "in_child" ->
                  \* unwrap() on None
                  /\ pc' = "panicked"
                  /\ UNCHANGED <<err, rx, chan, lost, handle, stdinW, toSend, child, session,
                                 killCalled>>
            [] stdin = "MissingFile" ->
                  \* File::open(path)?
                  RunFail("IoError")
            [] OTHER ->
                  /\ pc' = "writing"
                  /\ stdinW' = "taken"
                  /\ \E n \in 1..MaxPayload : toSend' = n
                  /\ UNCHANGED <<err, rx, chan, lost, handle, child, session, killCalled>>
    /\ UNCHANGED <<spawnCalls, stdinPipe, written, pipe, thr, errs, fwd, delivered,
                   lastRead>>
    /\ op' = "run"
    /\ UNCHANGED <<varsB, varsC>>

\* l.158 write_all / l.162 io::copy: one chunk at a time; the write blocks
\* while the pipe is full and fails once the child no longer reads.
RunWriteStdin ==
    /\ pc = "writing"
    /\ IF toSend = 0
       THEN /\ RunReturnOk
            /\ stdinW' = "closed"
            /\ UNCHANGED <<err, rx, chan, lost, handle, toSend, child, killCalled, stdinPipe>>
       ELSE IF child # "alive"
       THEN /\ RunFail("IoError")
            /\ UNCHANGED stdinPipe
       ELSE /\ stdinPipe < StdinCap
            /\ stdinPipe' = stdinPipe + 1
            /\ toSend' = toSend - 1
            /\ UNCHANGED <<pc, err, rx, chan, lost, handle, stdinW, child, session, killCalled>>
    /\ UNCHANGED <<spawnCalls, written, pipe, thr, errs, fwd, delivered, lastRead>>
    /\ op' = "run"
    /\ UNCHANGED <<varsB, varsC>>

\* ------------------------------------------- strategy A: the child process

\* the read end of an output pipe is open while the Child or a reader holds it
ReadEndOpen(s) == handle[s] = "some" \/ thr[s] = "running"

\* the child prints its next line to stdout or stderr
ChildWrite ==
    /\ child = "alive"
    /\ \E s \in Streams :
          /\ written[s] < MaxLines
          /\ Len(pipe[s]) < PipeCap
          /\ ReadEndOpen(s)
          /\ written' = [written EXCEPT ![s] = @ + 1]
          /\ pipe' = [pipe EXCEPT ![s] = @ \o Line(s, written[s] + 1)]
    /\ UNCHANGED <<pc, err, spawnCalls, child, handle, stdinW, toSend, stdinPipe, thr, errs,
                   chan, rx, session, fwd, delivered, lost, lastRead, killCalled>>
    /\ op' = "child"
    /\ UNCHANGED <<varsB, varsC>>

\* the child reads a chunk of its standard input
ChildReadStdin ==
    /\ child = "alive"
    /\ stdinPipe > 0
    /\ stdinPipe' = stdinPipe - 1
    /\ UNCHANGED <<pc, err, spawnCalls, child, handle, stdinW, toSend, written, pipe, thr,
                   errs, chan, rx, session, fwd, delivered, lost, lastRead, killCalled>>
    /\ op' = "child"
    /\ UNCHANGED <<varsB, varsC>>

\* the child terminates by itself; its ends of the pipes are closed
ChildExit ==
    /\ child = "alive"
    /\ child' = "exited"
    /\ stdinPipe' = 0
    /\ UNCHANGED <<pc, err, spawnCalls, handle, stdinW, toSend, written, pipe, thr, errs,
                   chan, rx, session, fwd, delivered, lost, lastRead, killCalled>>
    /\ op' = "child"
    /\ UNCHANGED <<varsB, varsC>>

\* --------------------------------- strategy A: spawn_thread_reader's thread

\* l.206 tx.send(Some(output)): fails, and the thread ends, once the Receiver
\* is gone
SendSome(s, output) ==
    IF rx[s] = "live"
    THEN /\ chan' = [chan EXCEPT ![s] = Append(@, Some(output))]
         /\ fwd' = [fwd EXCEPT ![s] = Append(@, output)]
         /\ UNCHANGED thr
    ELSE /\ thr' = [thr EXCEPT ![s] = "done"]
         /\ UNCHANGED <<chan, fwd>>

\* l.201 drop(tx.send(None)); break
SendNone(s) ==
    /\ chan' = [chan EXCEPT ![s] = IF rx[s] = "live" THEN Append(@, None) ELSE @]
    /\ thr' = [thr EXCEPT ![s] = "done"]
    /\ UNCHANGED fwd

\* l.197-210: one iteration of the reader loop
ReaderStep ==
    \E s \in Streams :
       /\ thr[s] = "running"
       /\ \/ \* read_line = Ok(n), n > 0
             /\ pipe[s] # <<>>
             /\ pipe' = [pipe EXCEPT ![s] = Tail(@)]
             /\ SendSome(s, <<Head(pipe[s])>>)
             /\ UNCHANGED errs
          \/ \* read_line = Err(_): the bytes are consumed, output stays empty
             /\ pipe[s] # <<>>
             /\ errs < MaxErr
             /\ errs' = errs + 1
             /\ pipe' = [pipe EXCEPT ![s] = Tail(@)]
             /\ SendSome(s, <<>>)
          \/ \* read_line = Ok(0): every write end is closed and the pipe is empty
             /\ pipe[s] = <<>>
             /\ child \in {"exited", "killed"}
             /\ SendNone(s)
             /\ UNCHANGED <<pipe, errs>>
       /\ UNCHANGED <<pc, err, spawnCalls, child, handle, stdinW, toSend, stdinPipe, written,
                      rx, session, delivered, lost, lastRead, killCalled>>
       /\ op' = "reader"
       /\ UNCHANGED <<varsB, varsC>>

\* ------------------------------------- strategy A: the host's operations

\* l.214-225 read_stdio on one Some(receiver): try_iter until the queue is
\* empty or the sentinel is met; on the sentinel the Option is set to None,
\* which drops the Receiver with whatever is still queued behind it.
\* output: the string built; stdio: the Option afterwards; discarded: what the
\* dropped Receiver still held.
read_stdio_overwrite(output, q) ==
    IF q = <<>> THEN [output |-> output, stdio |-> "live", discarded |-> <<>>]
    ELSE IF Head(q).tag = "Some"
    THEN [output |-> Head(q).val, stdio |-> "live", discarded |-> <<>>]
    ELSE [output |-> output, stdio |-> "retired", discarded |-> Tail(q)]

\* read_stdio putting each line in front of the output built so far
RECURSIVE read_stdio_prepend(_, _)
read_stdio_prepend(output, q) ==
    IF q = <<>> THEN [output |-> output, stdio |-> "live", discarded |-> <<>>]
    ELSE IF Head(q).tag = "Some" THEN read_stdio_prepend(Head(q).val \o output, Tail(q))
    ELSE [output |-> output, stdio |-> "retired", discarded |-> Tail(q)]

RECURSIVE read_stdio_keep(_, _)
read_stdio_keep(output, q) ==
    IF q = <<>> THEN [output |-> output, stdio |-> "live", discarded |-> <<>>]
    ELSE IF Head(q).tag = "Some" THEN read_stdio_keep(output \o Head(q).val, Tail(q))
    ELSE read_stdio_keep(output, Tail(q))

RECURSIVE read_stdio(_, _)
read_stdio(output, q) ==
    IF q = <<>> THEN [output |-> output, stdio |-> "live", discarded |-> <<>>]
    ELSE IF Head(q).tag = "Some" THEN read_stdio(output \o Head(q).val, Tail(q))
    ELSE [output |-> output, stdio |-> "retired", discarded |-> Tail(q)]

\* l.181-183
is_running == rx["stdout"] = "live" \/ rx["stderr"] = "live"

\* l.174-179
Read ==
    /\ session = "live"
    /\ LET r == [s \in Streams |->
                    IF rx[s] = "live" THEN read_stdio(<<>>, chan[s])
                    ELSE [output |-> <<>>, stdio |-> rx[s], discarded |-> <<>>]]
       IN /\ lastRead' = r["stdout"].output \o r["stderr"].output
          /\ delivered' = [s \in Streams |-> delivered[s] \o r[s].output]
          /\ rx' = [s \in Streams |-> r[s].stdio]
          /\ chan' = [s \in Streams |-> IF rx[s] = "live" THEN <<>> ELSE chan[s]]
          /\ lost' = [s \in Streams |-> lost[s] \o Payloads(r[s].discarded)]
    /\ op' = "read"
    /\ UNCHANGED <<pc, err, spawnCalls, child, handle, stdinW, toSend, stdinPipe, written,
                   pipe, thr, errs, session, fwd, killCalled>>
    /\ UNCHANGED <<varsB, varsC>>

\* kill without the two assignments of None
kill_child_only ==
    /\ child' = IF child = "alive" THEN "killed" ELSE child
    /\ stdinPipe' = IF child = "alive" THEN 0 ELSE stdinPipe
    /\ killCalled' = TRUE
    /\ UNCHANGED <<rx, chan, lost>>

\* l.185-189: drop(self.child.kill()); self.stdout = None; self.stderr = None
kill ==
    /\ child' = IF child = "alive" THEN "killed" ELSE child
    /\ stdinPipe' = IF child = "alive" THEN 0 ELSE stdinPipe
    /\ rx' = DroppedRx(Streams)
    /\ chan' = DroppedChan(Streams)
    /\ lost' = DroppedLost(Streams)
    /\ killCalled' = TRUE

Kill ==
    /\ session = "live"
    /\ kill
    /\ op' = "kill"
    /\ UNCHANGED <<pc, err, spawnCalls, handle, stdinW, toSend, written, pipe, thr, errs,
                   session, fwd, delivered, lastRead>>
    /\ UNCHANGED <<varsB, varsC>>

\* a ChildApp without a Drop impl: only the fields are dropped
drop_fields_only ==
    /\ rx' = DroppedRx(Streams)
    /\ chan' = DroppedChan(Streams)
    /\ lost' = DroppedLost(Streams)
    /\ UNCHANGED <<child, stdinPipe, killCalled>>

\* l.228-233: impl Drop for ChildApp
drop == kill

\* the host discards the session: Drop::drop runs, then the fields are
\* dropped, which closes the stdin handle the Child still holds
Discard ==
    /\ session = "live"
    /\ drop
    /\ session' = "dropped"
    /\ stdinW' = IF stdinW = "in_child" THEN "closed" ELSE stdinW
    /\ op' = "drop"
    /\ UNCHANGED <<pc, err, spawnCalls, handle, toSend, written, pipe, thr, errs,
                   fwd, delivered, lastRead>>
    /\ UNCHANGED <<varsB, varsC>>

NextA ==
    \/ RunCurrentExe
    \/ RunWorkingDir
    \/ RunSpawn
    \/ RunStdoutReader
    \/ RunStderrReader
    \/ RunStdin
    \/ RunWriteStdin
    \/ ChildWrite
    \/ ChildReadStdin
    \/ ChildExit
    \/ ReaderStep
    \/ Read
    \/ Kill
    \/ Discard

Init == InitA /\ InitB /\ InitC

Next == NextA

Spec == Init /\ [][Next]_vars

\* ------------------------------------------------ strategy B (wasm32)

\* characters of a String; NL is '\n'
NL == "\n"
\* the messages the target logic logs
Msgs == {<<>>, <<"a">>, <<"b", "c">>}

\* a new that stores no future
New_unstored ==
    /\ fut = "unborn"
    /\ fut' = "none"
    /\ \E n \in 1..MaxSteps : unitTotal' = n
    /\ opB' = "new"
    /\ UNCHANGED <<unitDone, queue, lastPoll, lastReadB>>
    /\ UNCHANGED <<varsA, varsC>>

\* l.96-105 ChildApp::new: the future is boxed and stored, not polled
New ==
    /\ fut = "unborn"
    /\ fut' = "some"
    /\ \E n \in 1..MaxSteps : unitTotal' = n
    /\ opB' = "new"
    /\ UNCHANGED <<unitDone, queue, lastPoll, lastReadB>>
    /\ UNCHANGED <<varsA, varsC>>

\* l.88-90
is_runningB == fut = "some"

\* a poll that drives the unit to its end, as a blocking executor would
Resume_to_end ==
    /\ unitDone' = unitTotal
    /\ \/ UNCHANGED queue
       \/ /\ Len(queue) < MaxQueue
          /\ \E m \in Msgs : queue' = Append(queue, m)
    /\ lastPoll' = "Ready"

\* Future::poll of the stored unit: it runs to its next suspension point, or to
\* its end; on the way it may log a message.
Resume ==
    /\ unitDone' = unitDone + 1
    /\ \/ UNCHANGED queue
       \/ /\ Len(queue) < MaxQueue
          /\ \E m \in Msgs : queue' = Append(queue, m)
    /\ lastPoll' = IF unitDone + 1 = unitTotal THEN "Ready" ELSE "Pending"

\* l.61-73
Poll ==
    /\ fut # "unborn"
    /\ lastPoll # "Panicked"
    /\ IF fut = "some"
       THEN IF unitDone < unitTotal
            THEN Resume
            ELSE \* the stored future has completed and is polled again: the
                 \* Future contract leaves the outcome open; an async block panics
                 /\ lastPoll' \in {"Panicked", "Ready", "Pending"}
                 /\ UNCHANGED <<unitDone, queue>>
       ELSE /\ lastPoll' = "Ready"
            /\ UNCHANGED <<unitDone, queue>>
    /\ opB' = "poll"
    /\ UNCHANGED <<fut, unitTotal, lastReadB>>
    /\ UNCHANGED <<varsA, varsC>>

\* collect without the push of '\n'
RECURSIVE collect_plain(_)
collect_plain(drained) ==
    IF drained = <<>> THEN <<>>
    ELSE Head(drained) \o collect_plain(Tail(drained))

\* l.80-84: .map(|mut x| { x.push('\n'); x }).collect()
RECURSIVE collect(_)
collect(drained) ==
    IF drained = <<>> THEN <<>>
    ELSE Append(Head(drained), NL) \o collect(Tail(drained))

\* l.75-85
ReadB ==
    /\ fut # "unborn"
    /\ lastPoll # "Panicked"
    /\ lastReadB' = collect(queue)
    /\ queue' = <<>>
    /\ opB' = "read"
    /\ UNCHANGED <<fut, unitTotal, unitDone, lastPoll>>
    /\ UNCHANGED <<varsA, varsC>>

\* a kill that also clears the logger queue
KillB_clear ==
    /\ fut # "unborn"
    /\ lastPoll # "Panicked"
    /\ fut' = "none"
    /\ queue' = <<>>
    /\ opB' = "kill"
    /\ UNCHANGED <<unitTotal, unitDone, lastPoll, lastReadB>>
    /\ UNCHANGED <<varsA, varsC>>

\* l.92-94
KillB ==
    /\ fut # "unborn"
    /\ lastPoll # "Panicked"
    /\ fut' = "none"
    /\ opB' = "kill"
    /\ UNCHANGED <<unitTotal, unitDone, queue, lastPoll, lastReadB>>
    /\ UNCHANGED <<varsA, varsC>>

NextB ==
    \/ New
    \/ Poll
    \/ ReadB
    \/ KillB

SpecB == Init /\ [][NextB]_vars

\* ======================================================== strategy A claims

AllLines(s) == [i \in 1..MaxLines |-> [stream |-> s, n |-> i]]

NoRepeat(q) == \A i, j \in 1..Len(q) : i # j => q[i] # q[j]

\* C1: while kill has not been called, every line a reader thread forwarded is
\* either still queued in its channel or was returned by a read call, once and
\* in order; nothing is discarded with a receiver; and when is_running is
\* false everything forwarded has been returned.
C1_ForwardedLinesDeliveredOnce ==
    (pc # "failed" /\ ~killCalled) =>
        \A s \in Streams :
            /\ Flatten(fwd[s]) = delivered[s] \o Flatten(Payloads(chan[s]))
            /\ NoRepeat(delivered[s])
            /\ lost[s] = <<>>
            /\ (session = "live" /\ ~is_running => delivered[s] = Flatten(fwd[s]))

\* the first read that returns anything runs after the child has exited and
\* returns every line of both streams; is_running is false after it
C1_Witness ==
    /\ ~killCalled
    /\ session = "live"
    /\ op = "read"
    /\ ~is_running
    /\ child = "exited"
    /\ lastRead = AllLines("stdout") \o AllLines("stderr")

HasNone(q) == \E i \in 1..Len(q) : q[i] = None

\* C2: a read call made after both reader threads have sent their end
\* sentinel leaves is_running false (one poll suffices); a read call retires a
\* channel exactly when the sentinel is in its queue; is_running is false
\* exactly when both channels are retired.
C2_OneReadAfterEndStopsRunning ==
    [][op' = "read" =>
          /\ ((\A s \in Streams : thr[s] = "done") => ~is_running')
          /\ \A s \in Streams :
                rx[s] = "live" => (rx'[s] = "retired" <=> HasNone(chan[s]))
          /\ (~is_running' <=> \A s \in Streams : rx'[s] = "retired")]_vars

C2_Witness ==
    /\ ~killCalled
    /\ session = "live"
    /\ op = "read"
    /\ lastRead = <<>>
    /\ child = "exited"
    /\ \A s \in Streams : thr[s] = "done" /\ rx[s] = "retired"

\* C3: right after kill the child is not alive and is_running is false, and
\* this stays so; every read call after kill returns the empty string.
C3_KillRetiresBoth ==
    [][/\ (killCalled' => ~is_running' /\ child' # "alive")
       /\ (op' = "kill" => \A s \in Streams : rx'[s] = "retired")
       /\ (killCalled /\ op' = "read" => lastRead' = <<>> /\ delivered' = delivered)]_vars

\* a read after a kill that discarded queued lines while a reader still ran
C3_Witness ==
    /\ killCalled
    /\ session = "live"
    /\ op = "read"
    /\ lost["stdout"] # <<>>
    /\ thr["stderr"] = "running"

\* C4: when the session value is dropped, the child is killed and both
\* channels are retired, as kill does.
C4_DropKills ==
    [][(session = "live" /\ session' = "dropped") =>
          /\ child' = (IF child = "alive" THEN "killed" ELSE child)
          /\ child' # "alive"
          /\ \A s \in Streams : rx'[s] = "retired"
          /\ killCalled']_vars

\* the session was dropped, without an explicit kill before, while the child
\* ran and lines were queued
C4_Witness ==
    /\ session = "dropped"
    /\ op = "drop"
    /\ child = "killed"
    /\ lost["stderr"] # <<>>

\* C5: on every exit path, a failed launch included, no spawned child is left
\* alive without a session that owns it.
C5_ChildReleasedOnEveryExit ==
    (pc = "failed" \/ session = "dropped") => child # "alive"

\* C6: run never panics, spawns at most once, and a failure returns an
\* ExecutionError and no session.
C6_FailureReturnsError ==
    /\ pc # "panicked"
    /\ spawnCalls <= 1
    /\ (pc = "failed" => err \in {"IoError", "NoStdoutOrStderr"} /\ session = "none")
    /\ (err # "none" => pc = "failed")

\* a launch that failed after the child was spawned and a reader started
C6_Witness ==
    /\ pc = "failed"
    /\ err = "IoError"
    /\ spawnCalls = 1
    /\ thr["stdout"] # "none"

\* ======================================================== strategy B claims

\* C7: once poll has returned Ready because the unit finished, is_running is
\* false.
C7_CompletionStopsRunning ==
    (fut # "unborn" /\ unitDone = unitTotal) => ~is_runningB

\* messages joined with sep between consecutive messages
RECURSIVE JoinSep(_, _)
JoinSep(ms, sep) ==
    IF ms = <<>> THEN <<>>
    ELSE IF Len(ms) = 1 THEN ms[1]
    ELSE ms[1] \o <<sep>> \o JoinSep(Tail(ms), sep)

\* every message followed by sep, the last one too
Terminated(ms, sep) == IF ms = <<>> THEN <<>> ELSE JoinSep(ms, sep) \o <<sep>>

\* C8: kill sets fut to None and changes nothing else; after it poll returns
\* Ready without a step of the unit or a new message, and read returns the
\* messages that were queued.
C8_KillDiscardsUnitOnly ==
    [][/\ (opB' = "kill" =>
              /\ ~is_runningB'
              /\ queue' = queue /\ unitDone' = unitDone /\ lastReadB' = lastReadB)
       /\ (fut = "none" => fut' = "none")
       /\ (fut = "none" /\ opB' = "poll" =>
              lastPoll' = "Ready" /\ unitDone' = unitDone /\ queue' = queue)
       /\ (fut = "none" /\ opB' = "read" =>
              lastReadB' = Terminated(queue, NL))]_vars

\* a read after kill, of an unfinished unit, that returns queued messages
C8_Witness ==
    /\ fut = "none"
    /\ opB = "read"
    /\ unitDone < unitTotal
    /\ lastReadB = <<"a", NL, "b", "c", NL>>

\* C9: the unit advances only in a poll call of a session that holds it, and
\* by one step; new runs no step and logs nothing; messages appear only in
\* poll calls.
C9_OneStepPerPoll ==
    [][/\ (unitDone' # unitDone => opB' = "poll" /\ fut = "some" /\ unitDone' = unitDone + 1)
       /\ (opB' = "new" => unitDone' = 0 /\ queue' = queue /\ lastPoll' = "none")
       /\ (Len(queue') > Len(queue) => opB' = "poll")
       /\ (opB' = "poll" /\ fut = "some" /\ unitDone' < unitTotal =>
              lastPoll' = "Pending")]_vars

\* one poll of a unit with MaxSteps steps ran one step and returned Pending
C9_Witness ==
    /\ opB = "poll"
    /\ lastPoll = "Pending"
    /\ unitDone = 1
    /\ unitTotal = MaxSteps

\* C10 as stated: read returns the queued messages with a line separator
\* between consecutive messages, and empties the queue.
C10_ReadJoinsWithSeparators ==
    [][opB' = "read" => lastReadB' = JoinSep(queue, NL) /\ queue' = <<>>]_vars

\* C10 amended: read returns every queued message, in order, each followed by
\* '\n' (the last one too), and empties the queue, so a read right after a
\* read returns the empty string.
C10_ReadTerminatesEachMessage ==
    [][opB' = "read" =>
          /\ lastReadB' = Terminated(queue, NL)
          /\ queue' = <<>>
          /\ (opB = "read" => lastReadB' = <<>>)]_vars

\* a read between polls that returned two messages
C10_Witness ==
    /\ opB = "read"
    /\ fut = "some"
    /\ unitDone < unitTotal
    /\ lastReadB = <<"b", "c", NL, "a", NL>>

\* ================================================== Argument State Engine
\* A string is a sequence of symbols; a flag's call name ("--single", "-s")
\* is one symbol, "=" and "," are symbols, a letter is a symbol.

\* An argument descriptor.  call = "none" for a positional, delim = "none"
\* without value_delimiter, default = <<>> without default_value.
Arg(name, kind, call, required, forbid_empty, use_equals, delim, default) ==
    [name |-> name, kind |-> kind, call |-> call, required |-> required,
     forbid_empty |-> forbid_empty, use_equals |-> use_equals, delim |-> delim,
     default |-> default]

Long(name, kind, required) ==
    Arg(name, kind, "--" \o name, required, FALSE, FALSE, "none", <<>>)

\* tests.rs l.11-25
Simple ==
    << Long("single", "String", TRUE),
       Long("optional_no_enter", "String", FALSE),
       Long("optional_enter", "String", FALSE),
       Long("flag_true", "Bool", FALSE),
       Long("flag_false", "Bool", FALSE),
       Long("occurrences", "Occurrences", FALSE) >>

\* tests.rs l.47-55
ForbidEmpty ==
    [i \in 1..3 |->
        Arg(<<"optional_no_empty1", "optional_no_empty2", "optional_no_empty3">>[i], "String",
            <<"--optional_no_empty1", "--optional_no_empty2", "--optional_no_empty3">>[i],
            FALSE, TRUE, FALSE, "none", <<>>)]

\* tests.rs l.72-78
OptionalAndDefault ==
    << Arg("required", "String", "none", TRUE, FALSE, FALSE, "none", <<>>),
       Arg("optional", "String", "none", FALSE, FALSE, FALSE, "none", <<>>),
       Arg("default", "String", "none", FALSE, FALSE, FALSE, "none", <<"d">>) >>

\* tests.rs l.92-110, one field of each shape: long, short, multiple_occurrences,
\* occurrences, flag
UseEquals ==
    << Arg("long", "String", "--long", TRUE, FALSE, TRUE, "none", <<>>),
       Arg("short", "String", "-s", TRUE, FALSE, TRUE, "none", <<>>),
       Arg("multiple_occurrences", "MultipleStrings", "--multiple_occurrences",
           FALSE, FALSE, TRUE, "none", <<>>),
       Long("occurrences", "Occurrences", FALSE),
       Long("flag", "Bool", FALSE) >>

\* tests.rs l.135-155, one field of each shape: multiple_occurrences_equals,
\* multiple, multiple_equals_use_delim, multiple_use_delim
DifferentMultipleValues ==
    << Arg("multiple_occurrences_equals", "MultipleStrings", "--multiple_occurrences_equals",
           FALSE, FALSE, TRUE, "none", <<>>),
       Long("multiple", "MultipleStrings", FALSE),
       Arg("multiple_equals_use_delim", "MultipleStrings", "--multiple_equals_use_delim",
           FALSE, FALSE, TRUE, ",", <<>>),
       Arg("multiple_use_delim", "MultipleStrings", "--multiple_use_delim",
           FALSE, FALSE, FALSE, ",", <<>>) >>

\* tests.rs l.187-191
MultipleOccurrences == << Long("a", "MultipleStrings", FALSE) >>

Schemas == {"Simple", "ForbidEmpty", "OptionalAndDefault", "UseEquals",
            "DifferentMultipleValues", "MultipleOccurrences"}

Command(c) ==
    CASE c = "Simple" -> Simple
      [] c = "ForbidEmpty" -> ForbidEmpty
      [] c = "OptionalAndDefault" -> OptionalAndDefault
      [] c = "UseEquals" -> UseEquals
      [] c = "DifferentMultipleValues" -> DifferentMultipleValues
      [] c = "MultipleOccurrences" -> MultipleOccurrences
      [] OTHER -> <<>>

\* the texts the editing surface enters
Texts == {<<>>, <<"a">>, <<"b">>}
Entries == {<<"h">>, <<"i">>}
EntryLists == UNION {[1..n -> Entries] : n \in 0..MaxEntries}

\* AppState::new: one node per descriptor, in descriptor order, with the
\* variant's empty payload
NewNode(d) ==
    CASE d.kind = "String" -> <<>>
      [] d.kind = "MultipleStrings" -> <<>>
      [] d.kind = "Bool" -> FALSE
      [] d.kind = "Occurrences" -> 0

\* tests.rs l.208-210
AppState_new ==
    /\ phase = "new"
    /\ \E c \in Schemas :
          /\ schema' = c
          /\ args' = [i \in 1..Len(Command(c)) |-> NewNode(Command(c)[i])]
    /\ phase' = "setup"
    /\ UNCHANGED <<cmd_args, matches>>
    /\ UNCHANGED <<varsA, varsB>>

Nodes(kind) == {i \in 1..Len(args) : Command(schema)[i].kind = kind}

\* tests.rs l.226-232: value.0 = val.to_string()
enter(i, val) == args' = [args EXCEPT ![i] = val]

\* tests.rs l.234-243: *values = vals...collect()
enter_multiple(i, vals) == args' = [args EXCEPT ![i] = vals]

\* tests.rs l.245-251: *i = val
occurrences(i, val) == args' = [args EXCEPT ![i] = val]

\* tests.rs l.253-259: *b = val
set(i, val) == args' = [args EXCEPT ![i] = val]

Enter ==
    /\ phase = "setup"
    /\ \E i \in Nodes("String"), val \in Texts : enter(i, val)
    /\ UNCHANGED <<schema, phase, cmd_args, matches>>
    /\ UNCHANGED <<varsA, varsB>>

EnterMultiple ==
    /\ phase = "setup"
    /\ \E i \in Nodes("MultipleStrings"), vals \in EntryLists : enter_multiple(i, vals)
    /\ UNCHANGED <<schema, phase, cmd_args, matches>>
    /\ UNCHANGED <<varsA, varsB>>

SetOccurrences ==
    /\ phase = "setup"
    /\ \E i \in Nodes("Occurrences"), val \in 0..MaxOcc : occurrences(i, val)
    /\ UNCHANGED <<schema, phase, cmd_args, matches>>
    /\ UNCHANGED <<varsA, varsB>>

SetBool ==
    /\ phase = "setup"
    /\ \E i \in Nodes("Bool"), val \in BOOLEAN : set(i, val)
    /\ UNCHANGED <<schema, phase, cmd_args, matches>>
    /\ UNCHANGED <<varsA, varsB>>

\* ------------------------------------------------- reconstruction (4.1)

RECURSIVE Join(_, _)
Join(values, delim) ==
    IF values = <<>> THEN <<>>
    ELSE IF Len(values) = 1 THEN values[1]
    ELSE values[1] \o <<delim>> \o Join(Tail(values), delim)

\* one value emitted in the two-token form also under require_equals
EmitValue_space(d, value) ==
    IF d.call = "none" THEN <<value>>
    ELSE << <<d.call>>, value >>

\* one value of descriptor d as tokens: the bare value for a positional, one
\* token flag=value under require_equals, else the two tokens flag, value
EmitValue(d, value) ==
    IF d.call = "none" THEN <<value>>
    ELSE IF d.use_equals THEN << <<d.call, "=">> \o value >>
    ELSE << <<d.call>>, value >>

RECURSIVE EmitEach(_, _)
EmitEach(d, values) ==
    IF values = <<>> THEN <<>>
    ELSE EmitValue(d, Head(values)) \o EmitEach(d, Tail(values))

\* a String node: an empty value is emitted only for a required descriptor
\* that does not forbid it
StringTokens_forbid_ignored(d, value) ==
    IF value # <<>> \/ d.required \/ d.forbid_empty THEN EmitValue(d, value) ELSE <<>>

\* a String node that emits nothing whenever its value is empty
StringTokens_skip_empty(d, value) ==
    IF value # <<>> THEN EmitValue(d, value) ELSE <<>>

StringTokens(d, value) ==
    IF value # <<>> THEN EmitValue(d, value)
    ELSE IF d.forbid_empty THEN <<>>
    ELSE IF d.required THEN EmitValue(d, value)
    ELSE <<>>

\* a MultipleStrings node emitting its flag also when it has no entry
MultipleTokens_bare(d, values) ==
    IF d.delim # "none" THEN EmitValue(d, Join(values, d.delim))
    ELSE IF values = <<>> THEN << <<d.call>> >> ELSE EmitEach(d, values)

\* a MultipleStrings node: nothing without entries, one delimiter-joined value
\* with a delimiter, else one emission per entry
MultipleTokens(d, values) ==
    IF values = <<>> THEN <<>>
    ELSE IF d.delim # "none" THEN EmitValue(d, Join(values, d.delim))
    ELSE EmitEach(d, values)

\* ArgState::get_cmd_args: the tokens of one node
NodeTokens(d, payload) ==
    CASE d.kind = "Bool" -> IF payload THEN << <<d.call>> >> ELSE <<>>
      [] d.kind = "Occurrences" -> [k \in 1..payload |-> <<d.call>>]
      [] d.kind = "String" -> StringTokens(d, payload)
      [] d.kind = "MultipleStrings" -> MultipleTokens(d, payload)

\* tokens of the nodes among the first n that are named (named = TRUE) or
\* positional (named = FALSE), in descriptor order
RECURSIVE TokensOf(_, _, _, _)
TokensOf(descs, payloads, n, named) ==
    IF n = 0 THEN <<>>
    ELSE TokensOf(descs, payloads, n - 1, named)
         \o (IF (descs[n].call # "none") = named THEN NodeTokens(descs[n], payloads[n])
             ELSE <<>>)

\* AppState::get_cmd_args(vec![program_name]): program name, named
\* arguments, then positionals
get_cmd_args(program_name, descs, payloads) ==
    <<program_name>> \o TokensOf(descs, payloads, Len(descs), TRUE)
                     \o TokensOf(descs, payloads, Len(descs), FALSE)

ProgramName == <<"_name">>

\* tests.rs l.212
GetCmdArgs ==
    /\ phase = "setup"
    /\ cmd_args' = get_cmd_args(ProgramName, Command(schema), args)
    /\ phase' = "reconstructed"
    /\ UNCHANGED <<schema, args, matches>>
    /\ UNCHANGED <<varsA, varsB>>

\* ------------------------------------------- re-parsing with the schema

Absent == [some |-> FALSE, val |-> <<>>]
Present(val) == [some |-> TRUE, val |-> val]

EmptyField(d) ==
    CASE d.kind = "Bool" -> FALSE
      [] d.kind = "Occurrences" -> 0
      [] d.kind = "String" -> Absent
      [] d.kind = "MultipleStrings" -> <<>>

RECURSIVE SplitAt(_, _, _)
SplitAt(val, delim, cur) ==
    IF val = <<>> THEN <<cur>>
    ELSE IF Head(val) = delim THEN <<cur>> \o SplitAt(Tail(val), delim, <<>>)
    ELSE SplitAt(Tail(val), delim, Append(cur, Head(val)))

\* one value given to descriptor d: NonEmptyStringValueParser rejects "", a
\* second value for a single-valued argument is rejected, value_delimiter
\* splits the value
Store(d, field, val) ==
    IF d.forbid_empty /\ val = <<>> THEN [ok |-> FALSE, field |-> field]
    ELSE IF d.kind = "String"
    THEN [ok |-> ~field.some, field |-> Present(val)]
    ELSE [ok |-> TRUE,
          field |-> field \o (IF d.delim = "none" THEN <<val>> ELSE SplitAt(val, d.delim, <<>>))]

FlagOf(descs, tok) ==
    IF tok = <<>> THEN {} ELSE {i \in 1..Len(descs) : descs[i].call = tok[1]}

PositionalsOf(descs) == SelectSeq([i \in 1..Len(descs) |-> i], LAMBDA i : descs[i].call = "none")

ParseError == [ok |-> FALSE, fields |-> <<>>]

\* clap's parser over the tokens after the program name; npos counts the
\* positionals filled so far
RECURSIVE ParseArgs(_, _, _, _)
ParseArgs(descs, toks, fields, npos) ==
    IF toks = <<>> THEN [ok |-> TRUE, fields |-> fields]
    ELSE LET tok == Head(toks) IN
         IF FlagOf(descs, tok) # {}
         THEN LET i == CHOOSE j \in FlagOf(descs, tok) : TRUE
                  d == descs[i]
              IN CASE d.kind = "Bool" ->
                        IF Len(tok) = 1
                        THEN ParseArgs(descs, Tail(toks), [fields EXCEPT ![i] = TRUE], npos)
                        ELSE ParseError
                   [] d.kind = "Occurrences" ->
                        IF Len(tok) = 1
                        THEN ParseArgs(descs, Tail(toks), [fields EXCEPT ![i] = @ + 1], npos)
                        ELSE ParseError
                   [] OTHER ->
                        IF Len(tok) >= 2
                        THEN IF tok[2] = "="
                             THEN LET r == Store(d, fields[i], SubSeq(tok, 3, Len(tok))) IN
                                  IF r.ok
                                  THEN ParseArgs(descs, Tail(toks),
                                                 [fields EXCEPT ![i] = r.field], npos)
                                  ELSE ParseError
                             ELSE ParseError
                        ELSE IF d.use_equals \/ Len(toks) < 2 \/ FlagOf(descs, toks[2]) # {}
                        THEN ParseError
                        ELSE LET r == Store(d, fields[i], toks[2]) IN
                             IF r.ok
                             THEN ParseArgs(descs, Tail(Tail(toks)),
                                            [fields EXCEPT ![i] = r.field], npos)
                             ELSE ParseError
         ELSE IF npos >= Len(PositionalsOf(descs)) THEN ParseError
         ELSE LET i == PositionalsOf(descs)[npos + 1]
                  r == Store(descs[i], fields[i], tok)
              IN IF r.ok
                 THEN ParseArgs(descs, Tail(toks), [fields EXCEPT ![i] = r.field], npos + 1)
                 ELSE ParseError

\* from_arg_matches: a missing required argument is an error, a missing
\* argument with default_value takes it
from_arg_matches(descs, m) ==
    IF ~m.ok THEN ParseError
    ELSE IF \E i \in 1..Len(descs) :
               descs[i].kind = "String" /\ descs[i].required /\ ~m.fields[i].some
    THEN ParseError
    ELSE [ok |-> TRUE,
          fields |-> [i \in 1..Len(descs) |->
                        IF descs[i].kind = "String" /\ ~m.fields[i].some
                           /\ descs[i].default # <<>>
                        THEN Present(descs[i].default)
                        ELSE m.fields[i]]]

\* tests.rs l.214-215
try_get_matches_from(descs, tokens) ==
    from_arg_matches(descs,
        ParseArgs(descs, Tail(tokens), [i \in 1..Len(descs) |-> EmptyField(descs[i])], 0))

Reparse ==
    /\ phase = "reconstructed"
    /\ matches' = try_get_matches_from(Command(schema), cmd_args)
    /\ phase' = "parsed"
    /\ UNCHANGED <<schema, args, cmd_args>>
    /\ UNCHANGED <<varsA, varsB>>

NextC ==
    \/ AppState_new
    \/ Enter
    \/ EnterMultiple
    \/ SetOccurrences
    \/ SetBool
    \/ GetCmdArgs
    \/ Reparse

SpecC == Init /\ [][NextC]_vars

\* ============================================ Argument State Engine claims

\* the field value a node's payload stands for: the text entered, the entries,
\* the bool, the count; an empty text on an optional scalar stands for the
\* unedited field, that is the schema default
Want(d, payload) ==
    IF d.kind # "String" THEN payload
    ELSE IF payload # <<>> \/ d.required THEN Present(payload)
    ELSE IF d.default # <<>> THEN Present(d.default)
    ELSE Absent

\* C11: after any mutations, re-parsing the reconstructed tokens with the
\* schema succeeds and gives every field the value the mutations set, and the
\* schema default to every field that was not edited.
C11_RoundTrip ==
    phase = "parsed" =>
        /\ matches.ok
        /\ \A i \in 1..Len(args) : matches.fields[i] = Want(Command(schema)[i], args[i])

Reconstructed == phase \in {"reconstructed", "parsed"}

Descs == Command(schema)

\* the values the tokens give to the flag call, in token order: the text
\* behind "=" of a joined token, the next token after a bare flag
RECURSIVE ValuesOf(_, _)
ValuesOf(call, toks) ==
    IF toks = <<>> THEN <<>>
    ELSE IF Head(toks) = <<>> \/ Head(toks)[1] # call THEN ValuesOf(call, Tail(toks))
    ELSE IF Len(Head(toks)) >= 2
    THEN <<SubSeq(Head(toks), 3, Len(Head(toks)))>> \o ValuesOf(call, Tail(toks))
    ELSE IF Len(toks) >= 2 THEN <<toks[2]>> \o ValuesOf(call, Tail(Tail(toks)))
    ELSE <<>>

Mentions(call, toks) == \E k \in 1..Len(toks) : toks[k] # <<>> /\ toks[k][1] = call

C13_ForbidEmptyFiltered ==
    Reconstructed =>
        \A i \in 1..Len(args) :
            (Descs[i].kind = "String" /\ Descs[i].forbid_empty) =>
                /\ args[i] = <<>> => ~Mentions(Descs[i].call, cmd_args)
                /\ args[i] # <<>> => ValuesOf(Descs[i].call, cmd_args) = <<args[i]>>
                /\ phase = "parsed" =>
                      /\ matches.ok
                      /\ matches.fields[i] = (IF args[i] = <<>> THEN Absent ELSE Present(args[i]))

\* the forbid_empty test: the first entered, the others empty
C13_Witness ==
    /\ schema = "ForbidEmpty"
    /\ phase = "parsed"
    /\ args = << <<"a">>, <<>>, <<>> >>
    /\ cmd_args = <<ProgramName, <<"--optional_no_empty1">>, <<"a">>>>
    /\ matches.fields = <<Present(<<"a">>), Absent, Absent>>

\* C14: under require_equals no flag token stands alone, every value is in a
\* joined token flag=value; a multi-value node with a delimiter emits one
\* value that splits at the delimiter into its entries; one without emits one
\* value per entry, in entry order.
C14_EqualsAndMultiEncoding ==
    Reconstructed =>
        \A i \in 1..Len(args) :
            LET d == Descs[i] IN
            /\ (d.use_equals /\ d.kind \in {"String", "MultipleStrings"}) =>
                  \A k \in 1..Len(cmd_args) :
                      (cmd_args[k] # <<>> /\ cmd_args[k][1] = d.call) =>
                          Len(cmd_args[k]) >= 2 /\ cmd_args[k][2] = "="
            /\ (d.kind = "MultipleStrings" /\ d.delim = "none") =>
                  ValuesOf(d.call, cmd_args) = args[i]
            /\ (d.kind = "MultipleStrings" /\ d.delim # "none" /\ args[i] # <<>>) =>
                  /\ Len(ValuesOf(d.call, cmd_args)) = 1
                  /\ SplitAt(ValuesOf(d.call, cmd_args)[1], d.delim, <<>>) = args[i]

\* entries h, i with delimiter ',' under require_equals: --name=h,i
C14_Witness ==
    /\ schema = "DifferentMultipleValues"
    /\ phase = "reconstructed"
    /\ args = << <<>>, << <<"i">>, <<"i">> >>, << <<"h">>, <<"i">> >>, <<>> >>
    /\ cmd_args = <<ProgramName, <<"--multiple">>, <<"i">>, <<"--multiple">>, <<"i">>,
                    <<"--multiple_equals_use_delim", "=", "h", ",", "i">>>>

\* C15: a multi-value node without entries contributes no token, with or
\* without require_equals and delimiter, and re-parses as the empty list.
C15_EmptyMultiOmitted ==
    Reconstructed =>
        \A i \in 1..Len(args) :
            (Descs[i].kind = "MultipleStrings" /\ args[i] = <<>>) =>
                /\ ~Mentions(Descs[i].call, cmd_args)
                /\ phase = "parsed" => matches.ok /\ matches.fields[i] = <<>>

\* plain, require_equals and delimiter nodes without entries next to an
\* entered one
C15_Witness ==
    /\ schema = "DifferentMultipleValues"
    /\ phase = "parsed"
    /\ args = << <<>>, <<>>, <<>>, << <<"h">> >> >>
    /\ cmd_args = <<ProgramName, <<"--multiple_use_delim">>, <<"h">>>>
    /\ matches.fields = << <<>>, <<>>, <<>>, << <<"h">> >> >>

\* C16: required, optional, defaulted positionals: with only the required one
\* edited the tokens re-parse as (value, absent, default); an unedited optional
\* positional contributes no token and is never given a token by the parser.
C16_UneditedPositionals ==
    (schema = "OptionalAndDefault" /\ phase = "parsed") =>
        /\ (args[1] # <<>> /\ args[2] = <<>> /\ args[3] = <<>>) =>
              /\ cmd_args = <<ProgramName, args[1]>>
              /\ matches = [ok |-> TRUE, fields |-> <<Present(args[1]), Absent, Present(<<"d">>)>>]
        /\ args[2] = <<>> => (matches.ok /\ matches.fields[2] = Absent)

\* ============================================ strategy A claims, continued

Proj(q, s) == SelectSeq(q, LAMBDA t : t.stream = s)

Increasing(q) == \A i, j \in 1..Len(q) : i < j => q[i].n < q[j].n

IsSuffix(a, b) == Len(a) <= Len(b) /\ a = SubSeq(b, Len(b) - Len(a) + 1, Len(b))

\* C17: what the read calls returned of one stream, concatenated, holds lines
\* the child wrote to that stream, in the order it wrote them; the output of
\* the latest read is the end of that concatenation.
C17_OrderWithinStream ==
    \A s \in Streams :
        /\ Increasing(delivered[s])
        /\ \A k \in 1..Len(delivered[s]) :
              delivered[s][k].stream = s /\ delivered[s][k].n \in 1..written[s]
        /\ IsSuffix(Proj(lastRead, s), delivered[s])

\* several reads, interleaved with the readers, returned all lines of both
\* streams; the last one returned the last line of each
C17_Witness ==
    /\ ~killCalled
    /\ op = "read"
    /\ \A s \in Streams : delivered[s] = AllLines(s)
    /\ lastRead = Line("stdout", MaxLines) \o Line("stderr", MaxLines)

\* C19: when a launch has returned a session, the write end of the child's
\* stdin is closed.
C19_StdinClosedAtReturn ==
    pc = "returned" => stdinW = "closed"

\* ------------------------------------------------ the launch under fairness
\* A child that prints all its output before it reads any input.
ChildReadsAfterOutput ==
    /\ \A s \in Streams : written[s] = MaxLines
    /\ ChildReadStdin

\* the launch with its threads and such a child, before the host acts
NextLaunch ==
    \/ RunCurrentExe
    \/ RunWorkingDir
    \/ RunSpawn
    \/ RunStdoutReader
    \/ RunStderrReader
    \/ RunStdin
    \/ RunWriteStdin
    \/ ChildWrite
    \/ ChildReadsAfterOutput
    \/ ChildExit
    \/ ReaderStep

\* the reader thread of stream s takes a step
ReaderOn(s) == ReaderStep /\ (pipe'[s] # pipe[s] \/ thr'[s] # thr[s])

\* the launching thread and the reader threads are scheduled, the child
\* keeps printing while it can and then consumes its input
SpecLaunch ==
    /\ Init
    /\ [][NextLaunch]_vars
    /\ WF_vars(RunWriteStdin)
    /\ WF_vars(ChildWrite)
    /\ WF_vars(ChildReadsAfterOutput)
    /\ \A s \in Streams : WF_vars(ReaderOn(s))

\* C18: a launch that writes a stdin payload returns, with a session or an
\* error, although the child prints more than its pipes buffer before it
\* reads any input.
C18_LaunchReturns ==
    (pc = "writing") ~> (pc \in {"returned", "failed"})

\* the launch returned after writing a payload larger than the stdin pipe to
\* a child that had first printed more lines than an output pipe buffers
C18_Witness ==
    /\ pc = "returned"
    /\ stdinW = "closed"
    /\ child = "alive"
    /\ \A s \in Streams : written[s] = MaxLines /\ MaxLines > PipeCap
    /\ stdinPipe = StdinCap

\* ------------------------------------------------ both strategies
\* The target decides which ChildApp is compiled: a program runs the native
\* one or the wasm32 one, never both.
NextEither ==
    \/ fut = "unborn" /\ NextA
    \/ pc = "start" /\ NextB

SpecEither == Init /\ [][NextEither]_vars

\* C20: is_running is true when a launch has just returned a session, a
\* session whose is_running is false keeps it false under every step, a
\* retired receiver stays retired and a discarded unit stays discarded.
C20_IsRunningMonotone ==
    [][/\ (session # "live" /\ session' = "live") => is_running'
       /\ (session = "live" /\ ~is_running) => ~is_running'
       /\ \A s \in Streams : rx[s] = "retired" => rx'[s] = "retired"
       /\ (fut = "unborn" /\ fut' # "unborn") => is_runningB'
       /\ (fut # "unborn" /\ ~is_runningB) => ~is_runningB'
       /\ fut = "none" => fut' = "none"]_vars

\* a reader thread has taken a step on a session that kill had already
\* stopped: is_running was false before the step and is false after it
C20_Witness ==
    /\ session = "live"
    /\ killCalled
    /\ op = "reader"
    /\ ~is_running
    /\ \E s \in Streams : thr[s] = "done"

====
